---- MODULE Spec2Model ----
(***************************************************************************)
(* Model of src/main.py: the daily news aggregation (main,                 *)
(* build_daily_sheet, compute_window) and the batched title                *)
(* classification (classify_titles_in_batches).                            *)
(*                                                                         *)
(* Time.  A datetime is an integer number of seconds counted from          *)
(* 00:00:00 of EpochDate (local time, JST).  A value of the column 投稿日  *)
(* is the text fmt() produces, "YYYY/MM/DD HH:MM": it is modelled by the   *)
(* number of whole minutes since the same origin, or by Unresolved for     *)
(* the text "取得不可".                                                    *)
(***************************************************************************)
EXTENDS Integers, Sequences, FiniteSets, TLC

VARIABLES
    pc,             \* position in main / classify_titles_in_batches
    google_items,   \* main: result of get_google_news
    yahoo_items,    \* main: result of get_yahoo_news
    msn_items,      \* main: result of get_msn_news
    all_items,      \* main: msn + google + yahoo
    now,            \* build_daily_sheet: jst_now()
    start,          \* build_daily_sheet: window start
    end,            \* build_daily_sheet: window end
    label,          \* build_daily_sheet: sheet name
    windowCalls,    \* number of compute_window calls made by the run
    filtered,       \* build_daily_sheet: source -> in-window records
    no_date,        \* build_daily_sheet: number of records skipped, no date
    ordered,        \* build_daily_sheet: the rows appended to the sheet
    model,          \* classify: setup_gemini() result (FALSE = None)
    values,         \* classify: titles of the data rows (sheet row 2..)
    items,          \* classify: <<row, title>> pairs to classify
    i,              \* classify: loop index into items (0-based)
    results_map,    \* classify: row -> <<sentiment, category>>
    outcome,        \* classify: how the last batch call ended
    arr,            \* classify: parsed response of the last batch
    calls,          \* classify: number of generate_content calls made
    okCalls,        \* classify: calls answered by a non-empty parsed array
    gh,             \* sheet columns G/H of the data rows, row 2 first
    sysTz,          \* UTC offset (hours) of the machine's local timezone
    sig,            \* the raw timing signals of one scraped item
    adapter,        \* the source adapter that resolved the item
    pub             \* the 投稿日 text the adapter resolved

mergeVars == <<google_items, yahoo_items, msn_items, all_items, now, start,
               end, label, windowCalls, filtered, no_date, ordered>>
classVars == <<model, values, items, i, results_map, outcome, arr, calls,
               okCalls, gh>>
resolveVars == <<sysTz, sig, adapter, pub>>
vars == <<pc, mergeVars, classVars, resolveVars>>

----------------------------------------------------------------------------
(* Bounds of the model *)

MaxItems == 2       \* records scraped in one run, all sources together
MaxRows == 4        \* data rows of the sheet handed to the classifier
MaxResp == 2        \* elements in one classifier response
BatchSize == 2      \* batch_size (80 in main), scaled to the model

----------------------------------------------------------------------------
(* Time and calendar *)

MinSec == 60
DaySec == 86400
AnchorHour == 15
HourSec == 60 * MinSec

EpochDate == <<2025, 8, 30>>      \* the date of day 0 of the model's clock

Unresolved == -1                  \* the text "取得不可"
None == -2                        \* Python's None

MonthLen(y, m) ==
    IF m = 2 THEN (IF (y % 4 = 0 /\ y % 100 # 0) \/ y % 400 = 0 THEN 29 ELSE 28)
    ELSE IF m \in {4, 6, 9, 11} THEN 30 ELSE 31

NextDate(d) ==
    IF d[3] < MonthLen(d[1], d[2]) THEN <<d[1], d[2], d[3] + 1>>
    ELSE IF d[2] < 12 THEN <<d[1], d[2] + 1, 1>>
    ELSE <<d[1] + 1, 1, 1>>

RECURSIVE DateOf(_)
DateOf(day) == IF day = 0 THEN EpochDate ELSE NextDate(DateOf(day - 1))

\* datetime.date(): the day a datetime falls on
date(dt) == dt \div DaySec

\* datetime.combine(day, dtime(hour=h, minute=0))
combine(day, h) == day * DaySec + h * HourSec

\* date.strftime("%y%m%d") as the number YYMMDD
strftime_yymmdd(day) ==
    LET d == DateOf(day) IN (d[1] % 100) * 10000 + d[2] * 100 + d[3]

\* fmt(dt): "%Y/%m/%d %H:%M", the seconds are dropped
fmt(dt) == dt \div MinSec

\* try_parse_jst on a 投稿日 text: None for "取得不可", else the datetime
\* of pattern "%Y/%m/%d %H:%M" (seconds zero)
try_parse_jst(s) == IF s = Unresolved THEN None ELSE s * MinSec

\* datetime(1970,1,1), the sort key of a record without a date
\* (20330 days before EpochDate)
Epoch1970 == 0 - 20330 * DaySec

----------------------------------------------------------------------------
(* Inputs: what the scraping adapters can return *)

Sources == <<"MSN", "Google", "Yahoo">>
URLs == {"http://a", "http://b"}
Titles == {"Nissan new Leaf", "Toyota Prius"}
RivalTitles == {"Toyota Prius"}     \* titles naming a rival brand's model

\* 投稿日 texts: day 0 15:00, day 1 14:59, day 1 15:00, and "取得不可"
PubTexts == {Unresolved,
             fmt(combine(0, AnchorHour)),
             fmt(combine(1, AnchorHour) - MinSec),
             fmt(combine(1, AnchorHour))}

\* jst_now() at the time build_daily_sheet runs
NowChoices == {combine(d, 0) + t :
                 d \in {1, 2},
                 t \in {0, AnchorHour * HourSec - 1, AnchorHour * HourSec}}

Records(s) == [src : {s}, URL : URLs, title : Titles, pub : PubTexts]

SeqsUpTo(S, n) == UNION {[1..k -> S] : k \in 0..n}

----------------------------------------------------------------------------
(* compute_window and build_daily_sheet *)

\* a slip: start taken one day before `end` instead of before today 15:00
compute_window_startFromEnd(now_jst) ==
    LET today == date(now_jst)
        today_1500 == combine(today, AnchorHour)
    IN [start |-> (today_1500 - 1) - DaySec,
        end   |-> today_1500 - 1,
        label |-> strftime_yymmdd(today)]

compute_window(now_jst) ==
    LET today == date(now_jst)
        today_1500 == combine(today, AnchorHour)
    IN [start |-> today_1500 - DaySec,
        end   |-> today_1500 - 1,
        label |-> strftime_yymmdd(today)]

\* a slip: strict comparisons
in_window_exclusive(dt, s, e) == s < dt /\ dt < e

\* the test `start <= dt <= end` of the filter loop
in_window(dt, s, e) == s <= dt /\ dt <= e

\* the filter loop: the records appended to filtered[source]
filter_rows(rows, source, s, e) ==
    SelectSeq(rows, LAMBDA r :
        /\ try_parse_jst(r.pub) # None
        /\ in_window(try_parse_jst(r.pub), s, e)
        /\ r.src = source)

\* the records counted in no_date
count_no_date(rows) ==
    Cardinality({k \in 1..Len(rows) : try_parse_jst(rows[k].pub) = None})

\* dedup_sort, first half: keep the first record of each URL
RECURSIVE uniq_by_url(_, _)
uniq_by_url(lst, seen) ==
    IF lst = <<>> THEN <<>>
    ELSE IF Head(lst).URL \in seen THEN uniq_by_url(Tail(lst), seen)
    ELSE <<Head(lst)>> \o uniq_by_url(Tail(lst), seen \cup {Head(lst).URL})

\* the sort key: try_parse_jst(x["投稿日"]) or datetime(1970,1,1)
sort_key(x) ==
    IF try_parse_jst(x.pub) = None THEN Epoch1970 ELSE try_parse_jst(x.pub)

\* list.sort(key, reverse=True) is stable: x goes after every element whose
\* key is greater than or equal to its own
RECURSIVE insert_desc(_, _)
insert_desc(sorted, x) ==
    IF sorted = <<>> THEN <<x>>
    ELSE IF sort_key(Head(sorted)) >= sort_key(x)
         THEN <<Head(sorted)>> \o insert_desc(Tail(sorted), x)
         ELSE <<x>> \o sorted

RECURSIVE sort_desc_from(_, _)
sort_desc_from(acc, rest) ==
    IF rest = <<>> THEN acc
    ELSE sort_desc_from(insert_desc(acc, Head(rest)), Tail(rest))

\* a slip: reverse=True forgotten
sort_ascending(lst) ==
    LET RECURSIVE ins(_, _)
        ins(sorted, x) ==
            IF sorted = <<>> THEN <<x>>
            ELSE IF sort_key(Head(sorted)) <= sort_key(x)
                 THEN <<Head(sorted)>> \o ins(Tail(sorted), x)
                 ELSE <<x>> \o sorted
        RECURSIVE go(_, _)
        go(acc, rest) ==
            IF rest = <<>> THEN acc ELSE go(ins(acc, Head(rest)), Tail(rest))
    IN go(<<>>, lst)

sort_desc(lst) == sort_desc_from(<<>>, lst)

dedup_sort(lst) == sort_desc(uniq_by_url(lst, {}))

\* ordered: dedup_sort of each group, in the order MSN, Google, Yahoo
build_ordered(f) ==
    dedup_sort(f[Sources[1]]) \o dedup_sort(f[Sources[2]]) \o dedup_sort(f[Sources[3]])

----------------------------------------------------------------------------
(* main up to build_daily_sheet *)

Fetched == Len(google_items) + Len(yahoo_items) + Len(msn_items)

get_google_news ==
    /\ pc = "get_google_news"
    /\ \E lst \in SeqsUpTo(Records("Google"), MaxItems) :
         google_items' = lst
    /\ pc' = "get_yahoo_news"
    /\ UNCHANGED resolveVars
    /\ UNCHANGED <<yahoo_items, msn_items, all_items, now, start, end, label,
                   windowCalls, filtered, no_date, ordered, classVars>>

get_yahoo_news ==
    /\ pc = "get_yahoo_news"
    /\ \E lst \in SeqsUpTo(Records("Yahoo"), MaxItems - Fetched) :
         yahoo_items' = lst
    /\ pc' = "get_msn_news"
    /\ UNCHANGED resolveVars
    /\ UNCHANGED <<google_items, msn_items, all_items, now, start, end, label,
                   windowCalls, filtered, no_date, ordered, classVars>>

get_msn_news ==
    /\ pc = "get_msn_news"
    /\ \E lst \in SeqsUpTo(Records("MSN"), MaxItems - Fetched) :
         msn_items' = lst
    /\ pc' = "build_daily_sheet"
    /\ UNCHANGED resolveVars
    /\ UNCHANGED <<google_items, yahoo_items, all_items, now, start, end, label,
                   windowCalls, filtered, no_date, ordered, classVars>>

build_daily_sheet ==
    /\ pc = "build_daily_sheet"
    /\ all_items' = msn_items \o google_items \o yahoo_items
    /\ \E n \in NowChoices :
         LET w == compute_window(n) IN
           /\ now' = n
           /\ start' = w.start
           /\ end' = w.end
           /\ label' = w.label
           /\ windowCalls' = windowCalls + 1
           /\ filtered' = [s \in {Sources[k] : k \in 1..3} |->
                             filter_rows(all_items', s, w.start, w.end)]
    /\ no_date' = count_no_date(all_items')
    /\ ordered' = build_ordered(filtered')
    /\ pc' = "built"
    /\ UNCHANGED resolveVars
    /\ UNCHANGED <<google_items, yahoo_items, msn_items, classVars>>

\* no item is being resolved
ResolveIdle ==
    /\ sysTz = 0
    /\ sig = <<>>
    /\ adapter = "none"
    /\ pub = Unresolved

ClassInit ==
    /\ model = FALSE
    /\ values = <<>>
    /\ items = <<>>
    /\ i = 0
    /\ results_map = <<>>
    /\ outcome = "none"
    /\ arr = <<>>
    /\ calls = 0
    /\ okCalls = 0
    /\ gh = <<>>

MergeInit ==
    /\ google_items = <<>>
    /\ yahoo_items = <<>>
    /\ msn_items = <<>>
    /\ all_items = <<>>
    /\ now = 0
    /\ start = 0
    /\ end = 0
    /\ label = 0
    /\ windowCalls = 0
    /\ filtered = [s \in {Sources[k] : k \in 1..3} |-> <<>>]
    /\ no_date = 0
    /\ ordered = <<>>

Init == pc = "get_google_news" /\ MergeInit /\ ClassInit /\ ResolveIdle

Next == get_google_news \/ get_yahoo_news \/ get_msn_news \/ build_daily_sheet

Spec == Init /\ [][Next]_vars

----------------------------------------------------------------------------
(* Claims about build_daily_sheet, checked under Spec *)

SourceSet == {Sources[k] : k \in 1..3}
Rank(s) == CHOOSE k \in 1..3 : Sources[k] = s

\* the position of the first record of all_items that carries URL u
FirstIndex(u) ==
    CHOOSE k \in 1..Len(all_items) :
        /\ all_items[k].URL = u
        /\ \A j \in 1..(k - 1) : all_items[j].URL # u

\* C1: the rows written by build_daily_sheet hold no two records with the
\* same URL, whatever their sources.
C1_NoDuplicateUrl ==
    pc = "built" =>
        \A a, b \in 1..Len(ordered) : a # b => ordered[a].URL # ordered[b].URL

\* C2: a record of the output is the first record of its URL in the input
\* taken in the order MSN, Google, Yahoo; a later duplicate never appears,
\* also when the first one is removed by the window filter.
C2_OnlyFirstOccurrenceSurvives ==
    pc = "built" =>
        \A k \in 1..Len(ordered) : ordered[k] = all_items[FirstIndex(ordered[k].URL)]

\* C5 as claimed: end is today 15:00:00, start is exactly 24 hours before
\* end, label is today's date as YYMMDD.
C5_WindowEndsAtAnchor ==
    pc = "built" =>
        /\ end = combine(date(now), AnchorHour)
        /\ end - start = 24 * HourSec
        /\ label = strftime_yymmdd(date(now))

\* C5 as amended: end is today 14:59:59 (one second before the anchor
\* hour), start is yesterday 15:00:00, so end - start is 24 hours less one
\* second; label is today's date as YYMMDD.
C5_WindowEndsBeforeAnchor ==
    pc = "built" =>
        /\ end = combine(date(now), AnchorHour) - 1
        /\ start = combine(date(now) - 1, AnchorHour)
        /\ end - start = 24 * HourSec - 1
        /\ label = strftime_yymmdd(date(now))
        /\ date(now) = 1 => label = 250831
        /\ date(now) = 2 => label = 250901

\* a run at 15:00:00 sharp: the window has closed one second earlier
C5_Witness ==
    /\ pc = "built"
    /\ now = combine(2, AnchorHour)
    /\ end = now - 1
    /\ label = 250901

Kept(r) == \E j \in 1..Len(filtered[r.src]) : filtered[r.src][j] = r

\* C6: the window is computed once in a run, and a record of a known source
\* passes the filter iff its time is resolved and start <= time <= end, both
\* bounds included.
C6_KeptIffInWindow ==
    pc = "built" =>
        /\ windowCalls = 1
        /\ \A k \in 1..Len(all_items) :
              all_items[k].src \in SourceSet =>
                (Kept(all_items[k]) <=>
                    /\ all_items[k].pub # Unresolved
                    /\ start <= all_items[k].pub * MinSec
                    /\ all_items[k].pub * MinSec <= end)

\* one record exactly at start is kept, one a second after end is dropped
C6_Witness ==
    /\ pc = "built"
    /\ \E k, j \in 1..Len(all_items) :
          /\ all_items[k].pub # Unresolved
          /\ all_items[k].pub * MinSec = start
          /\ Kept(all_items[k])
          /\ all_items[j].pub # Unresolved
          /\ all_items[j].pub * MinSec = end + 1
          /\ ~Kept(all_items[j])

\* C8: the output is the MSN rows, then the Google rows, then the Yahoo
\* rows; each group is in non-increasing order of time; no row has an
\* unresolved time.
C8_GroupedAndSorted ==
    pc = "built" =>
        /\ ordered = SelectSeq(ordered, LAMBDA r : r.src = Sources[1])
                      \o SelectSeq(ordered, LAMBDA r : r.src = Sources[2])
                      \o SelectSeq(ordered, LAMBDA r : r.src = Sources[3])
        /\ \A a, b \in 1..Len(ordered) :
              a < b =>
                /\ Rank(ordered[a].src) <= Rank(ordered[b].src)
                /\ ordered[a].src = ordered[b].src => ordered[a].pub >= ordered[b].pub
        /\ \A a \in 1..Len(ordered) : ordered[a].pub # Unresolved

\* two rows of one source scraped oldest first come out newest first
C8_Witness ==
    /\ pc = "built"
    /\ Len(all_items) = 2
    /\ Len(ordered) = 2
    /\ all_items[1].src = all_items[2].src
    /\ all_items[1].pub < all_items[2].pub
    /\ ordered[1] = all_items[2]
    /\ ordered[2] = all_items[1]

----------------------------------------------------------------------------
(* classify_titles_in_batches *)

Neutral == "neutral"          \* "ニュートラル"
Other == "other"              \* "その他"
Fallback == <<Neutral, Other>>
Blank == <<"", "">>

\* the category list of GEMINI_SYSTEM_PROMPT
RivalVehicle == "car(rival)"
Taxonomy == {"company", "car", RivalVehicle, "tech(EV)", "tech(e-POWER)",
             "tech(e-4ORCE)", "tech(AD/ADAS)", "tech", "motorsport", "stock",
             "politics/economy", "sports", Other}

\* the "row" values a response element can carry: rows of the sheet, rows
\* past its end, or None for a value int() rejects / an element that is no
\* object
RespRows == 2..(MaxRows + 1)
\* <<sentiment, category>> of an element: each field present or blank, and a
\* category outside the list of the prompt
RespVals == {<<"", "misc">>, <<"positive", "">>}
Objs == [row : RespRows, val : RespVals] \cup {[row |-> None, val |-> <<"", "">>]}

\* the text of a response: nothing, text holding no JSON, text holding a
\* JSON array of objects, or text holding a single JSON object
Texts ==
    [form : {"empty", "garbage"}, elems : {<<>>}]
    \cup [form : {"array"}, elems : SeqsUpTo(Objs, MaxResp) \ {<<>>}]
    \cup [form : {"object"}, elems : SeqsUpTo(Objs, 1) \ {<<>>}]

parse_batch_response(text) ==
    IF text.form \in {"empty", "garbage"} THEN <<>>
    ELSE IF text.form = "array" THEN text.elems
    ELSE <<text.elems[1]>>

Put(m, k, v) == [x \in DOMAIN m \cup {k} |-> IF x = k THEN v ELSE m[x]]

\* items[i:i+batch_size], i 0-based
batch_of(its, idx) ==
    SubSeq(its, idx + 1, IF idx + BatchSize < Len(its) THEN idx + BatchSize ELSE Len(its))

batch_rows(its, idx) == {batch_of(its, idx)[k][1] : k \in 1..Len(batch_of(its, idx))}

\* a slip: the map is rebuilt instead of updated
fallback_all_reset(m, rows) == [r \in rows |-> Fallback]

\* for r,_ in batch: results_map[r] = ("ニュートラル", "その他")
fallback_all(m, rows) ==
    [r \in DOMAIN m \cup rows |-> IF r \in rows THEN Fallback ELSE m[r]]

\* str(x).strip() or default
or_default(x, d) == IF x = "" THEN d ELSE x

\* the loop `for obj in arr`: the map after the elements, in order
RECURSIVE record_reported(_, _)
record_reported(m, a) ==
    IF a = <<>> THEN m
    ELSE IF Head(a).row = None THEN record_reported(m, Tail(a))
    ELSE record_reported(
            Put(m, Head(a).row,
                <<or_default(Head(a).val[1], Neutral), or_default(Head(a).val[2], Other)>>),
            Tail(a))

\* the set `covered`
covered_rows(a) == {a[k].row : k \in {j \in 1..Len(a) : a[j].row # None}}

\* a slip: the rows the response left out are not filled
process_response_noFill(m, a, rows) == record_reported(m, a)

\* lines 581-593: record the reported rows, then fill the rest of the batch
process_response(m, a, rows) ==
    fallback_all(record_reported(m, a), rows \ covered_rows(a))

max_row(m) == IF DOMAIN m = {} THEN 1 ELSE CHOOSE r \in DOMAIN m : \A q \in DOMAIN m : q <= r

\* the list `updates`, one entry per row 2..max_row
build_updates(m) ==
    [k \in 1..(max_row(m) - 1) |-> IF (k + 1) \in DOMAIN m THEN m[k + 1] ELSE Blank]

\* model = setup_gemini(); read the sheet; collect the titled rows
classify_start ==
    /\ pc = "classify"
    /\ IF ~model THEN
         /\ pc' = "done"
         /\ UNCHANGED items
       ELSE
         /\ items' = [k \in 1..Len(values) |-> <<k + 1, values[k]>>]
         /\ pc' = IF items' = <<>> THEN "done" ELSE "loop"
    /\ i' = 0
    /\ results_map' = <<>>
    /\ UNCHANGED resolveVars
    /\ UNCHANGED <<mergeVars, model, values, outcome, arr, calls, okCalls, gh>>

\* one iteration of `for i in range(0, len(items), batch_size)`
classify_batch ==
    /\ pc = "loop"
    /\ i < Len(items)
    /\ calls' = calls + 1
    /\ \/ /\ outcome' = "raise"           \* generate_content raised
          /\ arr' = <<>>
          /\ results_map' = fallback_all(results_map, batch_rows(items, i))
          /\ UNCHANGED okCalls
       \/ \E text \in Texts :
            /\ arr' = parse_batch_response(text)
            /\ IF arr' = <<>> THEN
                 /\ outcome' = IF text.form = "empty" THEN "empty" ELSE "malformed"
                 /\ results_map' = fallback_all(results_map, batch_rows(items, i))
                 /\ UNCHANGED okCalls
               ELSE
                 /\ outcome' = "ok"
                 /\ results_map' = process_response(results_map, arr', batch_rows(items, i))
                 /\ okCalls' = okCalls + 1
    /\ i' = i + BatchSize
    /\ pc' = IF i' < Len(items) THEN "loop" ELSE "write"
    /\ UNCHANGED resolveVars
    /\ UNCHANGED <<mergeVars, model, values, items, gh>>

\* the bulk write of G/H after the loop
classify_write ==
    /\ pc = "write"
    /\ gh' = build_updates(results_map)
    /\ pc' = "done"
    /\ UNCHANGED resolveVars
    /\ UNCHANGED <<mergeVars, model, values, items, i, results_map, outcome,
                   arr, calls, okCalls>>

\* the sheet cell pair G/H of a row
Cell(r) == IF r - 1 \in 1..Len(gh) THEN gh[r - 1] ELSE Blank

\* the title of the k-th data row: the code never reads a title's text, so
\* the rows alternate between the two titles
SheetTitle(k) == IF k % 2 = 1 THEN "Toyota Prius" ELSE "Nissan new Leaf"

\* a run of classify_titles_in_batches on the sheet build_daily_sheet left
InitClassify ==
    /\ pc = "classify"
    /\ MergeInit
    /\ ResolveIdle
    /\ model \in BOOLEAN
    /\ values \in {[k \in 1..n |-> SheetTitle(k)] : n \in 0..MaxRows}
    /\ items = <<>>
    /\ i = 0
    /\ results_map = <<>>
    /\ outcome = "none"
    /\ arr = <<>>
    /\ calls = 0
    /\ okCalls = 0
    /\ gh = <<>>

NextClassify == classify_start \/ classify_batch \/ classify_write

SpecClassify == InitClassify /\ [][NextClassify]_vars

----------------------------------------------------------------------------
(* Claims about classify_titles_in_batches, checked under SpecClassify *)

DataRows == 2..(Len(values) + 1)

CeilDiv(n, d) == (n + d - 1) \div d

\* the rows a response names with a usable row number
ValidRows(a) == {a[k].row : k \in {j \in 1..Len(a) : a[j].row # None}}

\* the last element of a response that names row r
LastFor(a, r) == a[CHOOSE k \in 1..Len(a) : a[k].row = r /\ \A j \in (k + 1)..Len(a) : a[j].row # r]

\* C3: when the classifier is unavailable for the whole run (no API key, or
\* no call answered with a usable array), every data row ends with the
\* fallback in G/H, none blank.
C3_UnavailableMeansFallback ==
    (pc = "done" /\ (~model \/ okCalls = 0)) =>
        \A r \in DataRows : Cell(r) = Fallback

\* C4: a batch answered by an array that names only rows of the batch gets a
\* result for each of its rows: a named row keeps what was reported for it
\* (the last element that names it; a blank field reads as the default), a
\* row not named gets the fallback; no other row is touched; and when every
\* result belongs to a data row, the write holds one non-blank entry per title.
C4_PartialResponseFilled ==
    [][ /\ (pc = "loop" /\ outcome' = "ok" /\ calls' = calls + 1
              /\ ValidRows(arr') \subseteq batch_rows(items, i)) =>
            /\ DOMAIN results_map' = DOMAIN results_map \cup batch_rows(items, i)
            /\ \A r \in batch_rows(items, i) :
                  IF r \in ValidRows(arr')
                  THEN /\ results_map'[r][1] =
                            (IF LastFor(arr', r).val[1] = "" THEN Neutral
                             ELSE LastFor(arr', r).val[1])
                       /\ results_map'[r][2] =
                            (IF LastFor(arr', r).val[2] = "" THEN Other
                             ELSE LastFor(arr', r).val[2])
                  ELSE results_map'[r] = Fallback
            /\ \A r \in DOMAIN results_map \ batch_rows(items, i) :
                  results_map'[r] = results_map[r]
        /\ (pc = "write" /\ pc' = "done" /\ DOMAIN results_map = DataRows) =>
            /\ Len(gh') = Len(items)
            /\ \A k \in 1..Len(gh') : gh'[k][1] # "" /\ gh'[k][2] # ""
      ]_vars

\* a batch of two rows answered for one of them only
C4_Witness ==
    /\ outcome = "ok"
    /\ calls = 1
    /\ Len(items) >= BatchSize
    /\ ValidRows(arr) # {}
    /\ ValidRows(arr) \subseteq batch_rows(items, 0)
    /\ \E r \in batch_rows(items, 0) \ ValidRows(arr) : results_map[r] = Fallback
    /\ \E r \in ValidRows(arr) : results_map[r] # Fallback

\* C7: the category written for a row is one of the fixed list, and for a
\* title naming a rival brand's model it is the competitor-vehicle label,
\* whatever the classifier returned.
C7_CategoryFromTitleRules ==
    (pc = "done" /\ model) =>
        \A k \in 1..Len(values) :
            /\ Cell(k + 1)[2] \in Taxonomy
            /\ values[k] \in RivalTitles => Cell(k + 1)[2] = RivalVehicle

\* C9: a batch that fails (the call raises, the text is empty or cannot be
\* parsed) gets the fallback for its own rows and leaves every other result
\* as it was; the loop goes on to the next batch, and it ends after exactly
\* ceil(n / batch_size) calls.
C9_FailureDoesNotAbort ==
    [][ /\ (pc = "loop" /\ calls' = calls + 1
              /\ outcome' \in {"raise", "empty", "malformed"}) =>
            /\ \A r \in batch_rows(items, i) : results_map'[r] = Fallback
            /\ DOMAIN results_map' = DOMAIN results_map \cup batch_rows(items, i)
            /\ \A r \in DOMAIN results_map \ batch_rows(items, i) :
                  results_map'[r] = results_map[r]
            /\ i' = i + BatchSize
            /\ pc' = IF i + BatchSize < Len(items) THEN "loop" ELSE "write"
        /\ pc' = "loop" => calls' < CeilDiv(Len(items'), BatchSize)
        /\ pc' = "write" => calls' = CeilDiv(Len(items'), BatchSize)
      ]_vars

\* the second batch failed and the first batch's reported result is intact
C9_Witness ==
    /\ pc = "write"
    /\ calls = 2
    /\ outcome = "raise"
    /\ \E r \in batch_rows(items, 0) : results_map[r] # Fallback
    /\ \A r \in batch_rows(items, BatchSize) : results_map[r] = Fallback

\* C10: a batch whose call raised is given the fallback only after the call
\* was tried again at least once.
C10_RetriedBeforeFallback ==
    [][ (pc = "loop" /\ outcome' = "raise" /\ i' # i) => calls' >= calls + 2 ]_vars

----------------------------------------------------------------------------
(* Timestamp resolution in the source adapters *)

\* An absolute timestamp text is modelled by the wall-clock time it spells
\* (seconds) and by how it marks its zone: "naive" (pattern without zone,
\* e.g. "%Y-%m-%d %H:%M"), "Z" (pattern ending in a literal Z), "+0900" (an
\* explicit offset, read by %z), "bad" (no pattern matches), "absent".

JstOffset == 9                    \* timedelta(hours=9)

Absent == [wall |-> 0, tz |-> "absent"]
Garbage == [wall |-> 0, tz |-> "bad"]

\* the UTC offset (hours) an explicitly marked text carries
UtcOffset(tz) == IF tz = "+0900" THEN 9 ELSE 0

\* try_parse_jst on an absolute timestamp text, on a machine whose local
\* timezone is z hours ahead of UTC: the wall-clock reading of the result
try_parse_jst_tz(t, z) ==
    IF t.tz \in {"absent", "bad"} THEN None
    ELSE IF t.tz = "naive" THEN t.wall
    ELSE IF t.tz = "Z" THEN t.wall + JstOffset * HourSec
    ELSE \* %z: dt.astimezone(tz=None), then + 9 hours
         (t.wall - UtcOffset(t.tz) * HourSec) + z * HourSec + JstOffset * HourSec

\* parse_relative_time: "N分前", "N時間前", "N日前", "HH:MM"; any other label
\* gives "取得不可" (the two date forms are not among the inputs)
parse_relative_time(lab, base) ==
    IF lab.unit = "min" THEN fmt(base - lab.n * MinSec)
    ELSE IF lab.unit = "hour" THEN fmt(base - lab.n * HourSec)
    ELSE IF lab.unit = "day" THEN fmt(base - lab.n * DaySec)
    ELSE IF lab.unit = "hm" THEN
        (IF date(base) * DaySec + lab.n * MinSec > base
         THEN fmt(date(base) * DaySec + lab.n * MinSec - DaySec)
         ELSE fmt(date(base) * DaySec + lab.n * MinSec))
    ELSE Unresolved

\* get_last_modified_datetime: the header is absent, carries a zone ("GMT",
\* an aware datetime) or carries none ("-0000", a naive datetime)
get_last_modified_datetime(h, z) ==
    IF h.tz = "absent" THEN Unresolved
    ELSE IF h.tz = "GMT" THEN fmt(h.wall + z * HourSec + JstOffset * HourSec)
    ELSE fmt(h.wall + JstOffset * HourSec)

\* the first text of a list that try_parse_jst accepts, or None
RECURSIVE first_parsed(_, _)
first_parsed(ts, z) ==
    IF ts = <<>> THEN None
    ELSE IF try_parse_jst_tz(Head(ts), z) # None THEN try_parse_jst_tz(Head(ts), z)
    ELSE first_parsed(Tail(ts), z)

\* extract_datetime_from_article: JSON-LD fields, then <time datetime>,
\* then the article/og meta properties (an article that could not be
\* fetched is an article without any of them)
extract_datetime_from_article(s, z) ==
    IF first_parsed(s.ld, z) # None THEN fmt(first_parsed(s.ld, z))
    ELSE IF try_parse_jst_tz(s.time, z) # None THEN fmt(try_parse_jst_tz(s.time, z))
    ELSE IF first_parsed(s.og, z) # None THEN fmt(first_parsed(s.og, z))
    ELSE Unresolved

\* get_msn_news: the card's relative label, then the article, then the
\* Last-Modified header
resolve_msn(s, base, z) ==
    IF parse_relative_time(s.lab, base) # Unresolved THEN parse_relative_time(s.lab, base)
    ELSE IF extract_datetime_from_article(s, z) # Unresolved
         THEN extract_datetime_from_article(s, z)
         ELSE get_last_modified_datetime(s.hdr, z)

\* get_google_news: the listing's <time datetime>, then the article
resolve_google(s, base, z) ==
    IF try_parse_jst_tz(s.list_time, z) # None THEN fmt(try_parse_jst_tz(s.list_time, z))
    ELSE extract_datetime_from_article(s, z)

\* get_yahoo_news: the article only
resolve_yahoo(s, base, z) == extract_datetime_from_article(s, z)

resolve(a, s, base, z) ==
    IF a = "MSN" THEN resolve_msn(s, base, z)
    ELSE IF a = "Google" THEN resolve_google(s, base, z)
    ELSE resolve_yahoo(s, base, z)

\* jst_now() of the adapter run: day 1, 12:00
ResolveBase == combine(1, 12)

\* inputs: the same instant written with a Z and with +0900, a naive text
\* of another time, and a text no pattern reads
AbsTexts == {[wall |-> combine(1, 3), tz |-> "Z"],
             [wall |-> combine(1, 12), tz |-> "+0900"],
             [wall |-> combine(1, 10), tz |-> "naive"],
             Garbage}
LabTexts == {[unit |-> "none", n |-> 0], [unit |-> "hour", n |-> 3],
             [unit |-> "min", n |-> 30], [unit |-> "hm", n |-> 13 * 60]}
HdrTexts == {Absent, [wall |-> combine(1, 3), tz |-> "GMT"]}
SysZones == {0, 9}

Signals == [lab : LabTexts, list_time : AbsTexts \cup {Absent},
            ld : SeqsUpTo(AbsTexts, 2), time : AbsTexts \cup {Absent},
            og : SeqsUpTo(AbsTexts, 1), hdr : HdrTexts]

resolve_done(a) ==
    /\ adapter' = a
    /\ pub' = resolve(a, sig, ResolveBase, sysTz)
    /\ pc' = "resolved"
    /\ UNCHANGED <<mergeVars, classVars, sysTz, sig>>

\* one card of get_msn_news (lines 312-331)
msn_item == pc = "resolve" /\ resolve_done("MSN")

\* one article of get_google_news (lines 228-247)
google_item == pc = "resolve" /\ resolve_done("Google")

\* one link of get_yahoo_news (lines 270-287)
yahoo_item == pc = "resolve" /\ resolve_done("Yahoo")

InitResolve ==
    /\ pc = "resolve"
    /\ MergeInit
    /\ ClassInit
    /\ sysTz \in SysZones
    /\ sig \in Signals
    /\ adapter = "none"
    /\ pub = Unresolved

NextResolve == msn_item \/ google_item \/ yahoo_item

SpecResolve == InitResolve /\ [][NextResolve]_vars

----------------------------------------------------------------------------
(* Claims about timestamp resolution, checked under SpecResolve *)

\* the 投稿日 texts the absolute signals of an item give
AbsoluteTimes(s, z) ==
    {fmt(try_parse_jst_tz(t, z)) :
        t \in {x \in ({s.list_time, s.time}
                       \cup {s.ld[k] : k \in 1..Len(s.ld)}
                       \cup {s.og[k] : k \in 1..Len(s.og)}) :
                 try_parse_jst_tz(x, z) # None}}

\* C11: in every adapter, when the article of an item carries an absolute
\* timestamp that parses and the item carries a relative label that parses
\* to another time, the resolved time is an absolute one.
C11_AbsoluteBeatsRelative ==
    (/\ pc = "resolved"
     /\ extract_datetime_from_article(sig, sysTz) # Unresolved
     /\ parse_relative_time(sig.lab, ResolveBase) # Unresolved
     /\ parse_relative_time(sig.lab, ResolveBase) \notin AbsoluteTimes(sig, sysTz))
    => pub \in AbsoluteTimes(sig, sysTz)

\* the instant (UTC wall clock) a text with a Z or an explicit offset denotes
UtcInstant(t) == t.wall - UtcOffset(t.tz) * HourSec

\* C12: the time an item resolves to does not depend on the timezone of the
\* machine, and two texts with a Z or an offset that denote the same instant
\* resolve to the same local time.
C12_SameTimeWhateverSystemZone ==
    pc = "resolved" =>
        /\ \A z \in SysZones : resolve(adapter, sig, ResolveBase, z) = pub
        /\ \A a, b \in {t \in AbsTexts : t.tz \in {"Z", "+0900"}} :
              UtcInstant(a) = UtcInstant(b) =>
                try_parse_jst_tz(a, sysTz) = try_parse_jst_tz(b, sysTz)

----------------------------------------------------------------------------
(* A further claim about classify_titles_in_batches, under SpecClassify *)

\* C13: the response to a batch sets results of rows of that batch only: it
\* never changes the result of a row of another batch and never adds a
\* result for a row that is no data row; so the write covers exactly the
\* data rows, none of them blank.
C13_ResponseBoundToItsBatch ==
    [][ /\ (pc = "loop" /\ calls' = calls + 1) =>
            /\ DOMAIN results_map' \subseteq DataRows
            /\ \A r \in DOMAIN results_map \ batch_rows(items, i) :
                  results_map'[r] = results_map[r]
        /\ (pc = "write" /\ pc' = "done") =>
            /\ Len(gh') = Len(values)
            /\ \A k \in 1..Len(gh') : gh'[k] # Blank
      ]_vars

====
